---- MODULE Spec2Model ----
(***************************************************************************)
(* SlicerTools: a facade of tool operations forwarded to a remote 3D       *)
(* Slicer scene over one connection handle (src/SlicerTools.py).           *)
(*                                                                         *)
(* The remote scene is the state: the nodes with their name, class and     *)
(* display node, the per-segment visibility held by each display node and  *)
(* the DisableModifiedEvent flag that StartModify/EndModify drive.  The    *)
(* facade holds no lock and the tool node may run tool calls side by side, *)
(* so every caller thread has its own frame th[t]: the operation it is in, *)
(* the remote calls it has issued so far, the value StartModify returned,  *)
(* and in the end the log lines and the value returned or the exception    *)
(* raised.  A segment operation proceeds by steps: it is entered, then     *)
(* each step runs up to and including the next remote call that touches    *)
(* the display node, and what follows EndModify is a last step: the log    *)
(* and the return, in set_segments_visibility after center_view.  The      *)
(* calls of two invocations so interleave before, between and after the    *)
(* calls on the display node, and an invocation is still running when its  *)
(* EndModify has come back.  Calls that only read the node table, and the  *)
(* calls of center_view, which touch no state kept here, are taken         *)
(* together.                                                               *)
(*                                                                         *)
(* The behaviour of the remote side is an input of every step: whether a   *)
(* remote call raises, whether what it raises is an Exception or only a    *)
(* BaseException (KeyboardInterrupt, SystemExit, GeneratorExit), whether   *)
(* the failing call had its effect on the scene before it raised, and      *)
(* which view widgets exist.  Deliver hands the outcome to the caller;     *)
(* prev[t] remembers the delivered invocation where sequences of calls     *)
(* are studied.  get_visible_segments reads the scene only and is not      *)
(* modelled.                                                               *)
(*                                                                         *)
(* Strings are sequences of string tokens; an f-string is the sequence of  *)
(* its parts and "sep".join(xs) interleaves the separator token.           *)
(***************************************************************************)
EXTENDS Integers, Sequences, FiniteSets, TLC

VARIABLES nodeName, nodeClass, nodeDisp, vis, disableMod, th, prev

vars == <<nodeName, nodeClass, nodeDisp, vis, disableMod, th, prev>>
scene == <<nodeName, nodeClass, nodeDisp>>

(***************************************************************************)
(* Bounds and the universe of the remote scene.                            *)
(***************************************************************************)
\* longest segment_names list passed to set_segments_visibility
MaxReq == 2

\* caller threads of the tool node
Threads == {"t1", "t2"}
\* scene nodes, in the order the remote scene enumerates them
NodeOrder == <<"n1", "n2">>
Nodes == {NodeOrder[i] : i \in 1..Len(NodeOrder)}
\* display names a node can carry and a caller can ask for
NodeNames == {"A", "B"}
\* str(node) of the elements the remote returns for a class query; it is
\* the remote object's own text, not the node's display name
NodeStr == [n \in Nodes |-> IF n = "n1" THEN "vtkMRMLNode (0x1)"
                            ELSE "vtkMRMLNode (0x2)"]
SegClass == "vtkMRMLSegmentationNode"
ClassNames == {SegClass, "vtkMRMLModelNode"}
\* every segmentation holds these segments: identifier -> name
SegOrder == <<"Segment_1", "Segment_2">>
SegIds == {SegOrder[i] : i \in 1..Len(SegOrder)}
SegName == [s \in SegIds |-> IF s = "Segment_1" THEN "liver" ELSE "tumor"]
\* names a caller can put in segment_names ("zz" names no segment)
ReqNames == {"liver", "tumor", "zz"}
SliceNames == <<"Red", "Yellow", "Green">>
\* what a failing remote call raises: an instance of Exception, or of
\* BaseException only
FaultKinds == {"Exception", "BaseException"}

(***************************************************************************)
(* String helpers.                                                         *)
(***************************************************************************)
RECURSIVE Join(_, _)
\* sep.join(items): items is a sequence of token sequences
Join(items, sep) ==
    IF Len(items) = 0 THEN <<>>
    ELSE IF Len(items) = 1 THEN items[1]
    ELSE items[1] \o <<sep>> \o Join(Tail(items), sep)

Digits == <<"0", "1", "2", "3", "4", "5", "6", "7", "8", "9">>

RECURSIVE IntToStr(_)
\* str(n) of a non-negative int, as one token per digit
IntToStr(n) ==
    IF n < 10 THEN <<Digits[n + 1]>>
    ELSE IntToStr(n \div 10) \o <<Digits[(n % 10) + 1]>>

BoolWord(visible) == IF visible THEN "visible" ELSE "hidden"

(***************************************************************************)
(* Remote calls.  A call is recorded as the method, the node it goes to,   *)
(* a string argument and an integer argument (booleans as 1/0).            *)
(***************************************************************************)
Call(fn, obj, arg, val) == [fn |-> fn, obj |-> obj, arg |-> arg, val |-> val]

B2I(b) == IF b THEN 1 ELSE 0

\* the remote calls that write visibility
Mutations == {"SetAllSegmentsVisibility", "SetSegmentVisibility"}
\* the remote calls that touch the state of a display node
Touching == Mutations \cup {"StartModify", "EndModify"}

\* effect of one remote call on the scene [vis, dis]
ApplyCall(st, c) ==
    IF c.fn = "StartModify" THEN
        [st EXCEPT !.dis[c.obj] = 1]
    ELSE IF c.fn = "EndModify" THEN
        [st EXCEPT !.dis[c.obj] = c.val]
    ELSE IF c.fn = "SetAllSegmentsVisibility" THEN
        [st EXCEPT !.vis[c.obj] = [s \in SegIds |-> c.val = 1]]
    ELSE IF c.fn = "SetSegmentVisibility" /\ c.arg \in SegIds THEN
        [st EXCEPT !.vis[c.obj][c.arg] = (c.val = 1)]
    ELSE st

\* the exception a failing remote call raises; its text names the call
RemoteError(c, kind) == [type |-> kind, msg |-> <<c.fn, " failed">>]
NoExc == [type |-> "", msg |-> <<>>]

\* the calls issued when call number failAt raises (0: none raises)
Issued(calls, failAt) ==
    IF failAt = 0 THEN calls ELSE SubSeq(calls, 1, failAt)

AllSegments(visible) == [s \in SegIds |-> visible]

(***************************************************************************)
(* An invocation's script: the remote calls it would issue in order if no  *)
(* remote call raised, and the exception the code itself raises at the end *)
(* of them (NoExc when it runs to its return statement).                   *)
(***************************************************************************)
Plan(calls, exc) == [calls |-> calls, exc |-> exc]

\* slicer_mrmlScene_GetNodesByName: the nodes carrying the name, scene order
GetNodesByName(name) == SelectSeq(NodeOrder, LAMBDA n : nodeName[n] = name)

\* slicer_util_getNodesByClass: the nodes of the class, scene order
GetNodesByClass(class_name) ==
    SelectSeq(NodeOrder, LAMBDA n : nodeClass[n] = class_name)

\* segmentation.GetSegmentIdBySegmentName: "" when no segment has the name
GetSegmentIdBySegmentName(segment_name) ==
    IF \E s \in SegIds : SegName[s] = segment_name
    THEN CHOOSE s \in SegIds : SegName[s] = segment_name
    ELSE ""

\* the message of the cardinality error
CardinalityMsg(name, count) ==
    <<"Expected exactly one node named '", name, "', found ">> \o IntToStr(count)

\* variant: only an empty lookup is refused, several matches yield the first
HelperFirstMatch(name) ==
    LET nodes == GetNodesByName(name)
        lookup == <<Call("slicer_mrmlScene_GetNodesByName", "", name, 0),
                    Call("GetNumberOfItems", "", name, 0)>>
    IN  IF Len(nodes) = 0 THEN
            [ok |-> FALSE, node |-> "",
             calls |-> lookup \o <<Call("GetNumberOfItems", "", name, 0)>>,
             exc |-> [type |-> "ValueError", msg |-> CardinalityMsg(name, 0)]]
        ELSE [ok |-> nodeClass[nodes[1]] = SegClass /\ nodeDisp[nodes[1]],
              node |-> nodes[1],
              calls |-> lookup \o <<Call("GetItemAsObject", "", name, 0),
                                    Call("IsA", nodes[1], SegClass, 0),
                                    Call("GetDisplayNode", nodes[1], "", 0)>>,
              exc |-> IF nodeClass[nodes[1]] = SegClass /\ nodeDisp[nodes[1]]
                      THEN NoExc
                      ELSE [type |-> "TypeError", msg |-> <<"Node '", name, "'">>]]

\* variant: the display node is not checked
HelperNoDisplayCheck(name) ==
    LET nodes == GetNodesByName(name)
        lookup == <<Call("slicer_mrmlScene_GetNodesByName", "", name, 0),
                    Call("GetNumberOfItems", "", name, 0)>>
    IN  IF Len(nodes) # 1 THEN
            [ok |-> FALSE, node |-> "",
             calls |-> lookup \o <<Call("GetNumberOfItems", "", name, 0)>>,
             exc |-> [type |-> "ValueError",
                      msg |-> CardinalityMsg(name, Len(nodes))]]
        ELSE IF nodeClass[nodes[1]] # SegClass THEN
            [ok |-> FALSE, node |-> nodes[1],
             calls |-> lookup \o <<Call("GetItemAsObject", "", name, 0),
                                   Call("IsA", nodes[1], SegClass, 0),
                                   Call("GetClassName", nodes[1], "", 0)>>,
             exc |-> [type |-> "TypeError",
                      msg |-> <<"Node '", name,
                                "' is not a segmentation node. Found: ",
                                nodeClass[nodes[1]]>>]]
        ELSE [ok |-> TRUE, node |-> nodes[1],
              calls |-> lookup \o <<Call("GetItemAsObject", "", name, 0),
                                    Call("IsA", nodes[1], SegClass, 0),
                                    Call("GetDisplayNode", nodes[1], "", 0)>>,
              exc |-> NoExc]

\* _get_segmentation_and_display_node: [ok, node, calls, exc]
get_segmentation_and_display_node(name) ==
    LET nodes == GetNodesByName(name)
        count == Len(nodes)
        lookup == <<Call("slicer_mrmlScene_GetNodesByName", "", name, 0),
                    Call("GetNumberOfItems", "", name, 0)>>
    IN  IF count # 1 THEN
            [ok |-> FALSE, node |-> "",
             calls |-> lookup \o <<Call("GetNumberOfItems", "", name, 0)>>,
             exc |-> [type |-> "ValueError", msg |-> CardinalityMsg(name, count)]]
        ELSE LET node == nodes[1]
                 item == lookup \o <<Call("GetItemAsObject", "", name, 0),
                                     Call("IsA", node, SegClass, 0)>>
             IN  IF nodeClass[node] # SegClass THEN
                     [ok |-> FALSE, node |-> node,
                      calls |-> item \o <<Call("GetClassName", node, "", 0)>>,
                      exc |-> [type |-> "TypeError",
                               msg |-> <<"Node '", name,
                                         "' is not a segmentation node. Found: ",
                                         nodeClass[node]>>]]
                 ELSE IF ~nodeDisp[node] THEN
                     [ok |-> FALSE, node |-> node,
                      calls |-> item \o <<Call("GetDisplayNode", node, "", 0)>>,
                      exc |-> [type |-> "ValueError",
                               msg |-> <<"Segmentation node '", name,
                                         "' has no display node">>]]
                 ELSE
                     [ok |-> TRUE, node |-> node,
                      calls |-> item \o <<Call("GetDisplayNode", node, "", 0)>>,
                      exc |-> NoExc]

\* variant: the flag is passed on inverted
SetAllBodyInverted(node, visible, wasModified) ==
    <<Call("StartModify", node, "", 0),
      Call("SetAllSegmentsVisibility", node, "", B2I(~visible)),
      Call("EndModify", node, "", wasModified)>>

\* variant: showing is skipped, only hiding mutates
SetAllBodyHideOnly(node, visible, wasModified) ==
    <<Call("StartModify", node, "", 0)>>
    \o (IF visible THEN <<>>
        ELSE <<Call("SetAllSegmentsVisibility", node, "", 0)>>)
    \o <<Call("EndModify", node, "", wasModified)>>

\* the batch region and the mutation of set_all_segments_visibility;
\* wasModified is what StartModify returned
SetAllBody(node, visible, wasModified) ==
    <<Call("StartModify", node, "", 0),
      Call("SetAllSegmentsVisibility", node, "", B2I(visible)),
      Call("EndModify", node, "", wasModified)>>

RECURSIVE SegmentLoop(_, _, _)
\* the loop over segment_names of set_segments_visibility
SegmentLoop(node, segment_names, visible) ==
    IF Len(segment_names) = 0 THEN <<>>
    ELSE <<Call("GetSegmentIdBySegmentName", node, Head(segment_names), 0),
           Call("SetSegmentVisibility", node,
                GetSegmentIdBySegmentName(Head(segment_names)), B2I(visible))>>
         \o SegmentLoop(node, Tail(segment_names), visible)

\* the batch region and the mutations of set_segments_visibility
SetSegmentsBody(node, segment_names, visible, wasModified) ==
    <<Call("GetSegmentation", node, "", 0),
      Call("StartModify", node, "", 0)>>
    \o SegmentLoop(node, segment_names, visible)
    \o <<Call("EndModify", node, "", wasModified)>>

\* the remote calls of set_all_segments_visibility up to its return
SetAllPlan(name, visible, wasModified) ==
    LET h == get_segmentation_and_display_node(name)
    IN  Plan(h.calls \o (IF h.ok THEN SetAllBody(h.node, visible, wasModified)
                         ELSE <<>>), h.exc)

\* the remote calls of set_segments_visibility up to self.center_view()
SetSegmentsPlan(name, segment_names, visible, wasModified) ==
    LET h == get_segmentation_and_display_node(name)
    IN  Plan(h.calls \o (IF h.ok THEN SetSegmentsBody(h.node, segment_names,
                                                      visible, wasModified)
                         ELSE <<>>), h.exc)

(***************************************************************************)
(* center_view.  env says which widgets the layout manager has.            *)
(***************************************************************************)
CvEnvs == [has3D : BOOLEAN, slices : SUBSET {SliceNames[i] : i \in 1..Len(SliceNames)}]

RECURSIVE SliceLoop(_, _)
SliceLoop(names, env) ==
    IF Len(names) = 0 THEN <<>>
    ELSE <<Call("sliceWidget", "", Head(names), 0)>>
         \o (IF Head(names) \in env.slices
             THEN <<Call("sliceController", "", Head(names), 0),
                    Call("fitSliceToBackground", "", Head(names), 0)>>
             ELSE <<>>)
         \o SliceLoop(Tail(names), env)

\* the remote calls inside the try block
CenterViewCalls(env) ==
    <<Call("slicer_app_layoutManager", "", "", 0),
      Call("threeDWidget", "", "", 0)>>
    \o (IF env.has3D THEN <<Call("threeDView", "", "", 0),
                              Call("resetFocalPoint", "", "", 0)>>
        ELSE <<>>)
    \o SliceLoop(SliceNames, env)

LogLine(op) == [level |-> "info", op |-> op]

\* variant: no except clause, every failure escapes
CenterViewUncaught(env, failAt, kind) ==
    LET calls == CenterViewCalls(env)
    IN  IF failAt = 0 \/ failAt > Len(calls) THEN
            [calls |-> calls,
             logs |-> <<LogLine("center_view")>>,
             result |-> <<"Successfully centered all views">>,
             exc |-> NoExc]
        ELSE
            [calls |-> Issued(calls, failAt),
             logs |-> <<>>,
             result |-> <<>>,
             exc |-> RemoteError(calls[failAt], kind)]

\* center_view as a whole, when remote call number failAt raises something
\* of the given kind (0, or a number past the last call: none raises).
\* `except Exception` turns an Exception into the returned string; anything
\* else a remote call raises goes through to the caller.
center_view_run(env, failAt, kind) ==
    LET calls == CenterViewCalls(env)
    IN  IF failAt = 0 \/ failAt > Len(calls) THEN
            [calls |-> calls,
             logs |-> <<LogLine("center_view")>>,
             result |-> <<"Successfully centered all views">>,
             exc |-> NoExc]
        ELSE IF kind = "Exception" THEN
            [calls |-> Issued(calls, failAt),
             logs |-> <<>>,
             result |-> <<"Error centering views: ">>
                        \o RemoteError(calls[failAt], kind).msg,
             exc |-> NoExc]
        ELSE
            [calls |-> Issued(calls, failAt),
             logs |-> <<>>,
             result |-> <<>>,
             exc |-> RemoteError(calls[failAt], kind)]

(***************************************************************************)
(* Frames: one invocation of one caller thread.                            *)
(***************************************************************************)
\* the frame of a thread that is in no tool call
NoInvocation ==
    [op |-> "", name |-> "", segs |-> <<>>, visible |-> FALSE,
     status |-> "idle", result |-> <<>>, exc |-> NoExc,
     calls |-> <<>>, failAt |-> 0, fault |-> "", logs |-> <<>>,
     node |-> "", wasModified |-> 0,
     visPre |-> AllSegments(FALSE), disturbed |-> FALSE]

NoSummary == [op |-> "", name |-> "", visible |-> FALSE]

\* what is remembered of a delivered invocation: a set_all_segments_visibility
\* that returned, with its arguments
Summary(inv) ==
    IF inv.op = "set_all_segments_visibility" /\ inv.status = "returned"
    THEN [op |-> inv.op, name |-> inv.name, visible |-> inv.visible]
    ELSE NoSummary

\* the frame of a call that has just been entered; where the properties
\* compare with it (keep), visPre holds the visibility the target node had
\* at that moment
Entered(op, name, segment_names, visible, keep) ==
    LET h == get_segmentation_and_display_node(name)
    IN  [NoInvocation EXCEPT
            !.op = op, !.name = name, !.segs = segment_names,
            !.visible = visible, !.status = "running", !.node = h.node,
            !.visPre = IF keep /\ h.ok THEN vis[h.node] ELSE AllSegments(FALSE)]

\* the frame of a call that went through in one step
Finished(op, name, run, failAt, kind) ==
    [NoInvocation EXCEPT
        !.op = op, !.name = name,
        !.status = IF run.exc = NoExc THEN "returned" ELSE "raised",
        !.result = run.result, !.exc = run.exc, !.calls = run.calls,
        !.failAt = failAt, !.fault = IF failAt = 0 THEN "" ELSE kind,
        !.logs = run.logs]

\* variant: the header is emitted before the nodes are looked at
NodeListingHeaderFirst(class_name, nodes) ==
    IF Len(nodes) # 0 THEN
        Join(<< <<class_name, " nodes:">> >>
             \o [i \in 1..Len(nodes) |-> <<"- ", NodeStr[nodes[i]]>>], "\n")
    ELSE
        Join(<< <<class_name, " nodes:">>,
                <<"No ", class_name, " nodes found in scene">> >>, "\n")

\* "\n".join(info) of get_node_by_class for the nodes the remote returned;
\* f"- {node}" puts str(node) on the line
NodeListing(class_name, nodes) ==
    IF Len(nodes) # 0 THEN
        Join(<< <<class_name, " nodes:">> >>
             \o [i \in 1..Len(nodes) |-> <<"- ", NodeStr[nodes[i]]>>], "\n")
    ELSE
        Join(<< <<"No ", class_name, " nodes found in scene">> >>, "\n")

RECURSIVE NodeLoop(_, _)
\* for node in nodes: next() and str() per element, and the next() that
\* ends the loop
NodeLoop(class_name, nodes) ==
    IF Len(nodes) = 0 THEN <<Call("__next__", "", class_name, 0)>>
    ELSE <<Call("__next__", "", class_name, 0),
           Call("__str__", Head(nodes), "", 0)>>
         \o NodeLoop(class_name, Tail(nodes))

\* the round trips of get_node_by_class: the query, the truth test of what
\* it returned and, when that is not empty, iter() and the loop over it
NodeListingCalls(class_name, nodes) ==
    <<Call("slicer_util_getNodesByClass", "", class_name, 0),
      Call("__bool__", "", class_name, 0)>>
    \o (IF Len(nodes) # 0
        THEN <<Call("__iter__", "", class_name, 0)>> \o NodeLoop(class_name, nodes)
        ELSE <<>>)

\* get_node_by_class as a whole, when remote call number failAt raises
\* (0: none raises)
get_node_by_class_run(class_name, failAt, kind) ==
    LET calls == NodeListingCalls(class_name, GetNodesByClass(class_name))
    IN  IF failAt = 0 THEN
            [calls |-> calls,
             logs |-> <<LogLine("get_node_by_class")>>,
             result |-> NodeListing(class_name, GetNodesByClass(class_name)),
             exc |-> NoExc]
        ELSE
            [calls |-> Issued(calls, failAt),
             logs |-> <<>>,
             result |-> <<>>,
             exc |-> RemoteError(calls[failAt], kind)]

SetAllResult(name, visible) ==
    <<"All segments in ", name, " are now ", BoolWord(visible)>>

SetSegmentsResult(name, segment_names, visible) ==
    <<"Segments ">>
    \o Join([i \in 1..Len(segment_names) |-> <<segment_names[i]>>], ", ")
    \o <<" in ", name, " are now ", BoolWord(visible)>>

\* the event of set_segments_visibility calling self.center_view()
CenterViewCall == Call("center_view", "self", "", 0)

\* the remote calls a frame issues if none raises
PlanOf(f) ==
    IF f.op = "set_all_segments_visibility"
    THEN SetAllPlan(f.name, f.visible, f.wasModified)
    ELSE SetSegmentsPlan(f.name, f.segs, f.visible, f.wasModified)

\* a step that starts after call number pos ends with the next call that
\* touches the display node, or with the last call
NextStop(calls, pos) ==
    LET hits == {i \in (pos + 1)..Len(calls) : calls[i].fn \in Touching}
    IN  IF hits = {} THEN Len(calls)
        ELSE CHOOSE i \in hits : \A j \in hits : i <= j

\* variant: the batch region is closed on the way out of a failure
RaisedClosing(f, calls, failAt, kind) ==
    [f EXCEPT !.status = "raised",
              !.calls = SubSeq(calls, 1, failAt)
                        \o <<Call("EndModify", f.node, "", f.wasModified)>>,
              !.failAt = failAt, !.fault = kind,
              !.exc = RemoteError(calls[failAt], kind)]

\* the frame after remote call number failAt raised: the exception goes
\* through to the caller and nothing more is issued
Raised(f, calls, failAt, kind) ==
    [f EXCEPT !.status = "raised",
              !.calls = SubSeq(calls, 1, failAt),
              !.failAt = failAt, !.fault = kind,
              !.exc = RemoteError(calls[failAt], kind)]

\* the frame after the helper raised its own error
HelperRaised(f, exc) == [f EXCEPT !.status = "raised", !.exc = exc]

\* set_all_segments_visibility after EndModify: the log and the return
SetAllReturned(f) ==
    [f EXCEPT !.status = "returned",
              !.logs = <<LogLine("set_all_segments_visibility")>>,
              !.result = SetAllResult(f.name, f.visible)]

\* every way a center_view invocation can go
CenterViewRuns ==
    {center_view_run(env, failAt, kind) :
        env \in CvEnvs, failAt \in 0..(2 + 2 + 3 * Len(SliceNames)),
        kind \in FaultKinds}

\* what set_segments_visibility sees of the center_view it calls: the log
\* lines left behind and the exception that escaped, if one did; the string
\* center_view returns is dropped
CenterViewEffects == {[logs |-> cv.logs, exc |-> cv.exc] : cv \in CenterViewRuns}

\* the kinds of failure an effect of center_view takes
Needs(cv) ==
    IF cv.exc # NoExc THEN {"BaseException"}
    ELSE IF cv.logs = <<>> THEN {"Exception"}
    ELSE {}

\* variant: the view is not centered
SetSegmentsNotCentered(f, cv) ==
    [f EXCEPT !.status = "returned",
              !.logs = <<LogLine("set_segments_visibility")>>,
              !.result = SetSegmentsResult(f.name, f.segs, f.visible)]

\* set_segments_visibility from self.center_view() on: it returns, or what
\* center_view let through ends it
SetSegmentsCentered(f, cv) ==
    [f EXCEPT !.status = IF cv.exc = NoExc THEN "returned" ELSE "raised",
              !.calls = f.calls \o <<CenterViewCall>>,
              !.logs = IF cv.exc = NoExc
                       THEN cv.logs \o <<LogLine("set_segments_visibility")>>
                       ELSE cv.logs,
              !.result = IF cv.exc = NoExc
                         THEN SetSegmentsResult(f.name, f.segs, f.visible)
                         ELSE <<>>,
              !.exc = cv.exc]

(***************************************************************************)
(* The operations.                                                         *)
(***************************************************************************)
Init ==
    /\ nodeName \in [Nodes -> NodeNames]
    \* names are interchangeable: the first node is the one called "A"
    /\ nodeName[NodeOrder[1]] = "A"
    /\ nodeClass \in [Nodes -> ClassNames]
    /\ nodeDisp \in [Nodes -> BOOLEAN]
    /\ vis \in [Nodes -> [SegIds -> BOOLEAN]]
    \* only a segmentation's display node holds segment visibility
    /\ \A n \in Nodes :
          (nodeClass[n] # SegClass \/ ~nodeDisp[n]) => vis[n] = AllSegments(FALSE)
    /\ disableMod = [n \in Nodes |-> 0]
    /\ th = [t \in Threads |-> NoInvocation]
    /\ prev = [t \in Threads |-> NoSummary]

\* thread t's frame becomes f after the remote call c took effect; a thread
\* in the middle of a call on the node whose visibility c writes is marked
Effect(t, f, c) ==
    LET after == ApplyCall([vis |-> vis, dis |-> disableMod], c)
    IN  /\ vis' = after.vis
        /\ disableMod' = after.dis
        /\ th' = [u \in Threads |->
                     IF u = t THEN f
                     ELSE IF /\ th[u].status = "running"
                             /\ c.fn \in Mutations
                             /\ th[u].node = c.obj
                          THEN [th[u] EXCEPT !.disturbed = TRUE]
                          ELSE th[u]]
        /\ UNCHANGED <<scene, prev>>

\* thread t's frame becomes f and the scene stays as it is
NoEffect(t, f) ==
    /\ th' = [th EXCEPT ![t] = f]
    /\ UNCHANGED <<scene, vis, disableMod, prev>>

\* one step of the segment operation in frame f of thread t: the remote
\* calls up to the next one that touches the display node.  One of them may
\* raise, a touching one before or after it took effect.  When EndModify
\* has come back the last step follows: set_all_segments_visibility logs
\* and returns, set_segments_visibility calls center_view first.
Advance(t, f, faults) ==
    LET plan == PlanOf(f)
        pos == Len(f.calls)
        stop == NextStop(plan.calls, pos)
    IN  IF pos = Len(plan.calls) THEN
            IF f.op = "set_all_segments_visibility"
            THEN NoEffect(t, SetAllReturned(f))
            ELSE \E cv \in CenterViewEffects :
                    /\ Needs(cv) \subseteq faults
                    /\ NoEffect(t, SetSegmentsCentered(f, cv))
        ELSE
        \/ \E failAt \in (pos + 1)..stop, kind \in faults :
             \/ NoEffect(t, Raised(f, plan.calls, failAt, kind))
             \/ /\ plan.calls[failAt].fn \in Touching
                /\ Effect(t, Raised(f, plan.calls, failAt, kind),
                          plan.calls[failAt])
        \/ LET c == plan.calls[stop]
               g == [f EXCEPT !.calls = SubSeq(plan.calls, 1, stop),
                              !.wasModified = IF c.fn = "StartModify"
                                              THEN disableMod[c.obj] ELSE @]
           IN  IF stop < Len(plan.calls) THEN Effect(t, g, c)
               ELSE IF plan.exc # NoExc THEN Effect(t, HelperRaised(g, plan.exc), c)
               ELSE Effect(t, g, c)

get_node_by_class(t, class_name, faults) ==
    /\ th[t].status = "idle"
    /\ \/ NoEffect(t, Finished("get_node_by_class", class_name,
                               get_node_by_class_run(class_name, 0, ""), 0, ""))
       \/ \E failAt \in 1..Len(NodeListingCalls(class_name,
                                                GetNodesByClass(class_name))),
             kind \in faults :
            NoEffect(t, Finished("get_node_by_class", class_name,
                                 get_node_by_class_run(class_name, failAt, kind),
                                 failAt, kind))

\* set_all_segments_visibility is entered; its remote calls follow
set_all_segments_visibility(t, name, visible) ==
    /\ th[t].status = "idle"
    /\ NoEffect(t, Entered("set_all_segments_visibility", name, <<>>, visible,
                          FALSE))

\* set_segments_visibility is entered; its remote calls follow
set_segments_visibility(t, name, segment_names, visible, keep) ==
    /\ th[t].status = "idle"
    /\ NoEffect(t, Entered("set_segments_visibility", name, segment_names,
                          visible, keep))

\* a segment operation that was entered goes on
Resume(t, faults) ==
    /\ th[t].status = "running"
    /\ Advance(t, th[t], faults)

center_view(t, faults) ==
    /\ th[t].status = "idle"
    /\ \E env \in CvEnvs :
         \/ NoEffect(t, Finished("center_view", "",
                                 center_view_run(env, 0, ""), 0, ""))
         \/ \E failAt \in 1..Len(CenterViewCalls(env)), kind \in faults :
              NoEffect(t, Finished("center_view", "",
                                   center_view_run(env, failAt, kind),
                                   failAt, kind))

\* the result or the exception reaches the caller; the facade keeps nothing
Deliver(t) ==
    /\ th[t].status \in {"returned", "raised"}
    /\ th' = [th EXCEPT ![t] = NoInvocation]
    /\ UNCHANGED <<scene, vis, disableMod, prev>>

\* the same, remembering the delivered invocation in prev
DeliverTracked(t) ==
    /\ th[t].status \in {"returned", "raised"}
    /\ prev' = [prev EXCEPT ![t] = Summary(th[t])]
    /\ th' = [th EXCEPT ![t] = NoInvocation]
    /\ UNCHANGED <<scene, vis, disableMod>>

SegmentNameLists == UNION {[1..k -> ReqNames] : k \in 0..MaxReq}

\* one caller, one tool call at a time, every operation, every failure
Next ==
    \/ \E c \in ClassNames : get_node_by_class("t1", c, FaultKinds)
    \/ \E n \in NodeNames, v \in BOOLEAN :
          set_all_segments_visibility("t1", n, v)
    \/ \E n \in NodeNames, l \in SegmentNameLists, v \in BOOLEAN :
          set_segments_visibility("t1", n, l, v, FALSE)
    \/ Resume("t1", FaultKinds)
    \/ center_view("t1", FaultKinds)
    \/ Deliver("t1")

Spec == Init /\ [][Next]_vars

\* scenes in which "A" names the one segmentation node
InitShared ==
    /\ Init
    /\ nodeName[NodeOrder[2]] = "B"
    /\ nodeClass[NodeOrder[1]] = SegClass
    /\ nodeDisp[NodeOrder[1]]
    /\ nodeClass[NodeOrder[2]] # SegClass
    /\ ~nodeDisp[NodeOrder[2]]

\* two callers of set_all_segments_visibility side by side, the first one
\* remembered from call to call, the second one without remote failures
NextShared ==
    \/ \E n \in NodeNames, v \in BOOLEAN :
          set_all_segments_visibility("t1", n, v)
    \/ Resume("t1", FaultKinds)
    \/ DeliverTracked("t1")
    \/ \E n \in NodeNames, v \in BOOLEAN :
          set_all_segments_visibility("t2", n, v)
    \/ Resume("t2", {})
    \/ Deliver("t2")

SpecShared == InitShared /\ [][NextShared]_vars

\* one call of set_segments_visibility, whose remote calls may raise an
\* Exception, next to one call of set_all_segments_visibility, whose remote
\* calls do not fail
NextInterleaved ==
    \/ \E n \in NodeNames, l \in SegmentNameLists, v \in BOOLEAN :
          set_segments_visibility("t1", n, l, v, TRUE)
    \/ Resume("t1", {"Exception"})
    \/ \E n \in NodeNames, v \in BOOLEAN :
          set_all_segments_visibility("t2", n, v)
    \/ Resume("t2", {})

SpecInterleaved == InitShared /\ [][NextInterleaved]_vars

(***************************************************************************)
(* Vocabulary of the properties.                                           *)
(***************************************************************************)
SegOps == {"set_all_segments_visibility", "set_segments_visibility"}

\* positions in calls of the calls to one of the methods fns
CallsNamed(calls, fns) == {i \in 1..Len(calls) : calls[i].fn \in fns}

\* positions of the calls to fns that came back without raising
Completed(inv, fns) == {i \in CallsNamed(inv.calls, fns) : i # inv.failAt}

\* the name resolves: one match, a segmentation node, with a display node
Resolvable(name) ==
    /\ Len(GetNodesByName(name)) = 1
    /\ nodeClass[GetNodesByName(name)[1]] = SegClass
    /\ nodeDisp[GetNodesByName(name)[1]]

\* the invocation of thread t is over
Over(t) == th[t].status \in {"returned", "raised"}

\* this step ends the invocation of thread t
Ends(t) == ~Over(t) /\ th'[t].status \in {"returned", "raised"}

RECURSIVE Split(_, _)
\* text.split(sep) on token sequences
Split(tokens, sep) ==
    IF Len(tokens) = 0 THEN << <<>> >>
    ELSE LET rest == Split(Tail(tokens), sep)
         IN  IF Head(tokens) = sep THEN << <<>> >> \o rest
             ELSE << <<Head(tokens)>> \o rest[1] >> \o Tail(rest)

(***************************************************************************)
(* Properties.                                                             *)
(***************************************************************************)

\* C1 as stated: center_view never raises to its caller, whatever the
\* remote side does; it always returns a string.
C1_CenterViewNeverRaises ==
    \A t \in Threads :
        th[t].op = "center_view" =>
            /\ th[t].status = "returned"
            /\ th[t].exc = NoExc

\* C1 amended: center_view returns the success string when no remote call
\* raised, and "Error centering views: " followed by the message of the
\* failure when a remote call raised an Exception; what a remote call
\* raises that is a BaseException only is raised to the caller.
C1_CenterViewCatchesExceptions ==
    \A t \in Threads :
        th[t].op = "center_view" =>
            IF th[t].failAt = 0 THEN
                /\ th[t].status = "returned"
                /\ th[t].result = <<"Successfully centered all views">>
            ELSE IF th[t].fault = "Exception" THEN
                /\ th[t].status = "returned"
                /\ th[t].exc = NoExc
                /\ Len(th[t].result) >= 2
                /\ th[t].result[1] = "Error centering views: "
                /\ Tail(th[t].result)
                       = RemoteError(th[t].calls[th[t].failAt], "Exception").msg
            ELSE
                /\ th[t].status = "raised"
                /\ th[t].exc = RemoteError(th[t].calls[th[t].failAt],
                                           "BaseException")
                /\ th[t].result = <<>>

C1_Witness ==
    \E t \in Threads :
        /\ th[t].op = "center_view"
        /\ th[t].failAt # 0
        /\ th[t].fault = "Exception"
        /\ th[t].calls[th[t].failAt].fn = "fitSliceToBackground"
        /\ th[t].calls[th[t].failAt].arg = "Green"
        /\ th[t].status = "returned"

\* C2 as stated: every invocation of set_segments_visibility, whatever its
\* outcome, calls center_view exactly once, after every other call it makes.
C2_EveryInvocationCenters ==
    \A t \in Threads :
        (Over(t) /\ th[t].op = "set_segments_visibility") =>
            CallsNamed(th[t].calls, {"center_view"}) = {Len(th[t].calls)}

\* C2 amended: an invocation of set_segments_visibility whose EndModify
\* came back has called center_view exactly once, as the last thing it
\* did, after one SetSegmentVisibility call per requested name (resolved
\* or not) and after EndModify; every invocation that returns is one of
\* these.  An invocation that ended before that has not called center_view.
C2_CentersAfterEndModify ==
    \A t \in Threads :
        (Over(t) /\ th[t].op = "set_segments_visibility") =>
            LET calls == th[t].calls
            IN  IF Completed(th[t], {"EndModify"}) # {}
                THEN /\ CallsNamed(calls, {"center_view"}) = {Len(calls)}
                     /\ Cardinality(CallsNamed(calls, {"SetSegmentVisibility"}))
                            = Len(th[t].segs)
                     /\ CallsNamed(calls, {"EndModify"}) = {Len(calls) - 1}
                     /\ \A i \in CallsNamed(calls, {"SetSegmentVisibility"}) :
                            i < Len(calls) - 1
                ELSE /\ CallsNamed(calls, {"center_view"}) = {}
                     /\ th[t].status = "raised"

C2_Witness ==
    \E t \in Threads :
        /\ th[t].op = "set_segments_visibility"
        /\ th[t].status = "returned"
        /\ th[t].segs = <<"zz", "liver">>
        /\ th[t].calls[Len(th[t].calls)] = CenterViewCall
        /\ \E i \in 1..Len(th[t].calls) :
              /\ th[t].calls[i].fn = "SetSegmentVisibility"
              /\ th[t].calls[i].arg = ""

\* C3: when the name matches 0 or at least 2 nodes the helper fails; unless
\* a remote call raised first, the failure is a ValueError whose text holds
\* the name and the number of matches.  Only with exactly one match does
\* the caller get a node to work on.
C3_CardinalityError ==
    \A t \in Threads :
        (th[t].op \in SegOps) =>
            LET count == Len(GetNodesByName(th[t].name))
            IN  /\ (Over(t) /\ count # 1) => th[t].status = "raised"
                /\ (Over(t) /\ count # 1 /\ th[t].failAt = 0) =>
                       /\ th[t].exc.type = "ValueError"
                       /\ \E i \in 1..Len(th[t].exc.msg) :
                              th[t].exc.msg[i] = th[t].name
                       /\ th[t].exc.msg[Len(th[t].exc.msg)] = Digits[count + 1]
                       /\ th[t].exc.msg[1] = "Expected exactly one node named '"
                /\ CallsNamed(th[t].calls,
                       {"GetItemAsObject", "GetSegmentation", "StartModify"}) # {}
                       => count = 1

C3_Witness ==
    \E t \in Threads :
        /\ th[t].op \in SegOps
        /\ Len(GetNodesByName(th[t].name)) = 2
        /\ th[t].status = "raised"
        /\ th[t].exc.type = "ValueError"
        /\ th[t].exc.msg[Len(th[t].exc.msg)] = "2"

\* the step with which set_all_segments_visibility ends on a resolvable
\* node after remote calls that all succeeded
C4_Case(t) ==
    /\ Ends(t)
    /\ th'[t].op = "set_all_segments_visibility"
    /\ Resolvable(th'[t].name)
    /\ th'[t].failAt = 0

\* it returns the confirmation string
C4_Returns(t) ==
    /\ th'[t].status = "returned"
    /\ th'[t].result = <<"All segments in ", th'[t].name, " are now ",
                         IF th'[t].visible THEN "visible" ELSE "hidden">>

\* every segment of the node is in the requested state
C4_Holds(t) == vis'[th'[t].node] = AllSegments(th'[t].visible)

\* C4 as stated: on a resolvable node, set_all_segments_visibility whose
\* remote calls all succeed leaves every segment of the node in the
\* requested state and returns "All segments in <name> are now visible"
\* (or "... hidden").
C4_SetAllSetsEverySegment ==
    [][\A t \in Threads : C4_Case(t) => (C4_Returns(t) /\ C4_Holds(t))]_vars

\* C4 amended: on a resolvable node, set_all_segments_visibility whose
\* remote calls all succeed returns that string; every segment of the node
\* is in the requested state when it returns if no other invocation wrote
\* the visibility of the node between its entry and its return.
C4_SetAllSetsEverySegmentAlone ==
    [][\A t \in Threads :
          C4_Case(t) =>
              /\ C4_Returns(t)
              /\ ~th'[t].disturbed => C4_Holds(t)]_vars

\* an undisturbed call returns while another caller is inside its region
C4_Witness ==
    /\ th["t1"].op = "set_all_segments_visibility"
    /\ th["t1"].visible
    /\ th["t1"].status = "returned"
    /\ ~th["t1"].disturbed
    /\ \A s \in SegIds : vis[th["t1"].node][s]
    /\ th["t1"].result = <<"All segments in ", "A", " are now ", "visible">>
    /\ th["t2"].status = "running"
    /\ th["t2"].node = th["t1"].node

\* the step with which set_all_segments_visibility(name, True) returns to a
\* caller whose previous call was set_all_segments_visibility(name, False)
C5_Case(t) ==
    /\ Ends(t)
    /\ prev[t].op = "set_all_segments_visibility"
    /\ th'[t].op = "set_all_segments_visibility"
    /\ th'[t].name = prev[t].name
    /\ th'[t].status = "returned"
    /\ th'[t].visible

\* C5 as stated: after set_all_segments_visibility(name, False) and then
\* (name, True), and after any run of such calls on the name that ends
\* with True, every segment of the node is visible, whatever the
\* visibility was at the start.
C5_RoundTrip ==
    [][\A t \in Threads :
          C5_Case(t) => vis'[th'[t].node] = AllSegments(TRUE)]_vars

\* C5 amended: the same, at the return of the last call of the run, when
\* no other invocation wrote the visibility of the node between the entry
\* and the return of that call.
C5_RoundTripAlone ==
    [][\A t \in Threads :
          (C5_Case(t) /\ ~th'[t].disturbed)
              => vis'[th'[t].node] = AllSegments(TRUE)]_vars

C5_Witness ==
    /\ prev["t1"].op = "set_all_segments_visibility"
    /\ ~prev["t1"].visible
    /\ th["t1"].op = "set_all_segments_visibility"
    /\ th["t1"].name = prev["t1"].name
    /\ th["t1"].status = "returned"
    /\ th["t1"].visible
    /\ ~th["t1"].disturbed
    /\ vis[th["t1"].node] = AllSegments(TRUE)

\* C6: get_node_by_class returns the single line "No <class> nodes found in
\* scene" when the remote returned no node, and otherwise the header line
\* "<class> nodes:" followed by one "- <node>" line per returned node, in
\* the order returned, <node> being the text of the returned element.
C6_NodeListing ==
    \A t \in Threads :
        (th[t].op = "get_node_by_class" /\ th[t].status = "returned") =>
            LET nodes == GetNodesByClass(th[t].name)
                lines == Split(th[t].result, "\n")
            IN  IF Len(nodes) = 0
                THEN lines = << <<"No ", th[t].name, " nodes found in scene">> >>
                ELSE /\ Len(lines) = Len(nodes) + 1
                     /\ lines[1] = <<th[t].name, " nodes:">>
                     /\ \A i \in 1..Len(nodes) :
                            lines[i + 1] = <<"- ", NodeStr[nodes[i]]>>

C6_Witness ==
    \E t \in Threads :
        /\ th[t].op = "get_node_by_class"
        /\ th[t].status = "returned"
        /\ Len(GetNodesByClass(th[t].name)) = 2
        /\ Split(th[t].result, "\n")[2] = <<"- ", NodeStr["n1"]>>
        /\ Split(th[t].result, "\n")[3] = <<"- ", NodeStr["n2"]>>

\* C7 as stated: in both segment operations StartModify is called at most
\* once and before the first mutation, every mutation comes before
\* EndModify, and every region that was opened has been closed when the
\* operation is over, so that no display node is left with its modified
\* events disabled.
C7_RegionAlwaysClosed ==
    \A t \in Threads :
        (Over(t) /\ th[t].op \in SegOps) =>
            LET starts == Completed(th[t], {"StartModify"})
                ends == Completed(th[t], {"EndModify"})
                muts == CallsNamed(th[t].calls, Mutations)
            IN  /\ Cardinality(starts) <= 1
                /\ \A m \in muts : \E b \in starts : b < m
                /\ \A m \in muts : \A e \in ends : m < e
                /\ Cardinality(ends) = Cardinality(starts)
                /\ \A n \in Nodes : disableMod[n] = 0

\* the step in which a remote call raises while set_segments_visibility
\* handles a requested name
C8_Case(t) ==
    /\ Ends(t)
    /\ th'[t].op = "set_segments_visibility"
    /\ th'[t].failAt # 0
    /\ th'[t].calls[th'[t].failAt].fn
           \in {"GetSegmentIdBySegmentName", "SetSegmentVisibility"}

\* the failure reaches the caller and is the last thing the invocation did
C8_FailFast(t) ==
    /\ th'[t].status = "raised"
    /\ th'[t].result = <<>>
    /\ th'[t].exc = RemoteError(th'[t].calls[th'[t].failAt], th'[t].fault)
    /\ th'[t].failAt = Len(th'[t].calls)
    /\ CallsNamed(th'[t].calls, {"EndModify", "center_view"}) = {}

\* the names handled before the one at which the call raised
C8_Handled(t) ==
    LET k == Cardinality(CallsNamed(th'[t].calls, {"GetSegmentIdBySegmentName"}))
    IN  {th'[t].segs[i] : i \in 1..(k - 1)}

\* C8 as stated: when a remote call raises while set_segments_visibility
\* handles the k-th requested name, the failure reaches the caller, the
\* segments named by the first k-1 names have the new visibility, every
\* other segment has the visibility it had when the call was made, and
\* the failing call is the last remote call of the invocation: no
\* EndModify, no center_view.
C8_FailFastNoRollback ==
    [][\A t \in Threads :
          C8_Case(t) =>
              /\ C8_FailFast(t)
              /\ \A s \in SegIds :
                    vis'[th'[t].node][s] =
                        IF SegName[s] \in C8_Handled(t) THEN th'[t].visible
                        ELSE th'[t].visPre[s]]_vars

\* C8 amended: the same, when no other invocation wrote the visibility of
\* the node meanwhile, except that the segment of the failing
\* SetSegmentVisibility call has either the visibility it had or the new
\* one: the call may have taken effect before it raised.
C8_FailFastNoRollbackAlone ==
    [][\A t \in Threads :
          C8_Case(t) =>
              /\ C8_FailFast(t)
              /\ ~th'[t].disturbed =>
                    \A s \in SegIds :
                       LET c == th'[t].calls[th'[t].failAt]
                       IN  IF SegName[s] \in C8_Handled(t)
                           THEN vis'[th'[t].node][s] = th'[t].visible
                           ELSE IF c.fn = "SetSegmentVisibility" /\ c.arg = s
                           THEN vis'[th'[t].node][s]
                                    \in {th'[t].visPre[s], th'[t].visible}
                           ELSE vis'[th'[t].node][s] = th'[t].visPre[s]
              /\ \A n \in Nodes \ {th'[t].node} : vis'[n] = vis[n]]_vars

\* the call for the second of two names raises after it took effect
C8_Witness ==
    /\ th["t1"].op = "set_segments_visibility"
    /\ th["t1"].segs = <<"liver", "tumor">>
    /\ th["t1"].visible
    /\ th["t1"].failAt # 0
    /\ th["t1"].calls[th["t1"].failAt].fn = "SetSegmentVisibility"
    /\ th["t1"].calls[th["t1"].failAt].arg = "Segment_2"
    /\ th["t1"].status = "raised"
    /\ ~th["t1"].disturbed
    /\ th["t1"].visPre = AllSegments(FALSE)
    /\ vis[th["t1"].node]["Segment_1"]
    /\ vis[th["t1"].node]["Segment_2"]

\* C9 as stated: an invocation that returns a string has emitted exactly one
\* info-level log line, and that line names the operation invoked.
C9_OneLogLinePerReturn ==
    \A t \in Threads :
        th[t].status = "returned" => th[t].logs = <<LogLine(th[t].op)>>

\* C10: when the helper fails, both segment operations leave the scene as it
\* was, issue no StartModify, no mutation, no EndModify and no center_view,
\* and raise; unless a remote call raised first, the error is the one of the
\* first failing check: match count, then class, then display node.
C10_Step ==
    \A t \in Threads :
        (/\ th'[t] # th[t]
         /\ th'[t].op \in SegOps
         /\ ~Resolvable(th'[t].name)) =>
            LET inv == th'[t]
                nodes == GetNodesByName(inv.name)
            IN  /\ vis' = vis
                /\ disableMod' = disableMod
                /\ inv.status \in {"running", "raised"}
                /\ inv.status = "running" => inv.calls = <<>>
                /\ th[t].status = "running" => inv.status = "raised"
                /\ CallsNamed(inv.calls, Touching \cup {"center_view"}) = {}
                /\ (inv.status = "raised" /\ inv.failAt = 0) =>
                      IF Len(nodes) # 1 THEN
                          /\ inv.exc.type = "ValueError"
                          /\ inv.exc.msg[1] = "Expected exactly one node named '"
                      ELSE IF nodeClass[nodes[1]] # SegClass THEN
                          /\ inv.exc.type = "TypeError"
                          /\ inv.exc.msg[Len(inv.exc.msg)] = nodeClass[nodes[1]]
                      ELSE
                          /\ inv.exc.type = "ValueError"
                          /\ inv.exc.msg[3] = "' has no display node"

C10_HelperFailureLeavesSceneAlone == [][C10_Step]_vars

C10_Witness ==
    \E t \in Threads :
        /\ th[t].op = "set_segments_visibility"
        /\ th[t].exc.type = "ValueError"
        /\ th[t].exc.msg[Len(th[t].exc.msg)] = "' has no display node"
        /\ th[t].calls[Len(th[t].calls)].fn = "GetDisplayNode"
        /\ th[t].status = "raised"

====
